---------------------------- MODULE Spec2Model ----------------------------
(***************************************************************************)
(* Model of the robust-data-processor pipeline:                            *)
(*   ingest/main.go  - the ingest Lambda (normalise, validate, enqueue)    *)
(*   worker/main.go  - the worker Lambda (batch handler, processMessage,   *)
(*                     redactPII)                                          *)
(*   main.tf         - the queue, its redrive policy, the table's key      *)
(*                     schema and the event source mapping                 *)
(* Strings are sequences of one-character strings, so that the regular     *)
(* expressions of redactPII are evaluated character by character.          *)
(***************************************************************************)
EXTENDS Integers, Sequences, FiniteSets, TLC

(***************************************************************************)
(* Bounds of the model                                                     *)
(***************************************************************************)
MaxRequests == 2      \* ingest invocations in one behaviour
MaxMessages == 2      \* messages ever put on the queue
MaxClock == 2         \* clock ticks (half seconds)
MaxAborts == 1        \* worker invocations the host aborts
MaxTokens == 5        \* pieces a redaction input is built from
MaxTextLen == 120     \* characters of the longest text whose sleep is computed

(***************************************************************************)
(* Characters and character classes of Go's regexp (RE2, ASCII classes)    *)
(***************************************************************************)
Digits == {"0", "1", "2", "3", "4", "5", "6", "7", "8", "9"}

Letters ==
  {"a", "b", "c", "d", "e", "f", "g", "h", "i", "j", "k", "l", "m",
   "n", "o", "p", "q", "r", "s", "t", "u", "v", "w", "x", "y", "z",
   "A", "B", "C", "D", "E", "F", "G", "H", "I", "J", "K", "L", "M",
   "N", "O", "P", "Q", "R", "S", "T", "U", "V", "W", "X", "Y", "Z"}

\* \w
WordChars == Digits \cup Letters \cup {"_"}

\* [-.]
Separators == {"-", "."}

\* [\w.-]
EmailChars == WordChars \cup Separators

\* the replacement literal
Redacted == <<"[", "R", "E", "D", "A", "C", "T", "E", "D", "]">>

\* is position i of t a character of class
InClass(t, i, class) == i >= 1 /\ i <= Len(t) /\ t[i] \in class

\* \b before position p (p = Len(t) + 1 is the end of the text)
Boundary(t, p) == InClass(t, p - 1, WordChars) # InClass(t, p, WordChars)

\* \d{n} at position i
DigitRun(t, i, n) == \A k \in i .. (i + n - 1) : InClass(t, k, Digits)

\* the first position >= i not of the class (Len(t) + 1 when the run reaches the end)
RECURSIVE RunEnd(_, _, _)
RunEnd(t, i, class) ==
  IF InClass(t, i, class) THEN RunEnd(t, i + 1, class) ELSE i

\* [-.]? at position i: greedy, and the digit required next rules out skipping
\* a separator that is there
AfterSep(t, i) == IF InClass(t, i, Separators) THEN i + 1 ELSE i

(***************************************************************************)
(* The three patterns: XEnd(t, s) is the position after the match that     *)
(* starts at s, or 0 when the pattern does not match at s.                 *)
(***************************************************************************)
\* \b\d{3}[-.]?\d{3}[-.]?\d{4}\b
PhoneEnd(t, s) ==
  LET a == AfterSep(t, s + 3)
      b == AfterSep(t, a + 3)
  IN  IF /\ Boundary(t, s)
         /\ DigitRun(t, s, 3)
         /\ DigitRun(t, a, 3)
         /\ DigitRun(t, b, 4)
         /\ Boundary(t, b + 4)
      THEN b + 4
      ELSE 0

\* \b\d{3}-\d{2}-\d{4}\b
SsnEnd(t, s) ==
  IF /\ Boundary(t, s)
     /\ DigitRun(t, s, 3)
     /\ InClass(t, s + 3, {"-"})
     /\ DigitRun(t, s + 4, 2)
     /\ InClass(t, s + 6, {"-"})
     /\ DigitRun(t, s + 7, 4)
     /\ Boundary(t, s + 11)
  THEN s + 11
  ELSE 0

\* \b[\w.-]+@[\w.-]+\.\w+\b : the local part is the whole run up to the @; the
\* domain part is greedy, so the dot is the last one of the run after the @
\* that has a character before it and a word character after it; \w+ is then
\* the whole word run, whose end is a word boundary.
EmailEnd(t, s) ==
  LET at == RunEnd(t, s, EmailChars)
      r == RunEnd(t, at + 1, EmailChars)
      dots == {d \in (at + 2) .. (r - 2) : t[d] = "." /\ InClass(t, d + 1, WordChars)}
      dot == CHOOSE d \in dots : \A e \in dots : e <= d
  IN  IF /\ Boundary(t, s)
         /\ at > s
         /\ InClass(t, at, {"@"})
         /\ dots # {}
      THEN RunEnd(t, dot + 1, WordChars)
      ELSE 0

MatchEnd(pat, t, s) ==
  CASE pat = "phone" -> PhoneEnd(t, s)
    [] pat = "ssn" -> SsnEnd(t, s)
    [] pat = "email" -> EmailEnd(t, s)

\* the matches ReplaceAllString finds: leftmost first, not overlapping, the
\* search resuming where the last match ended; each <<s, e>> is the match
\* t[s .. e - 1]
RECURSIVE MatchesFrom(_, _, _)
MatchesFrom(pat, t, i) ==
  IF i > Len(t) THEN <<>>
  ELSE LET e == MatchEnd(pat, t, i)
       IN  IF e = 0 THEN MatchesFrom(pat, t, i + 1)
           ELSE <<<<i, e>>>> \o MatchesFrom(pat, t, e)

Matches(pat, t) == MatchesFrom(pat, t, 1)

\* x with each span replaced by repl; x is the text, or any sequence of its length
RECURSIVE Splice(_, _, _, _)
Splice(x, spans, repl, from) ==
  IF spans = <<>> THEN SubSeq(x, from, Len(x))
  ELSE SubSeq(x, from, Head(spans)[1] - 1) \o repl
         \o Splice(x, Tail(spans), repl, Head(spans)[2])

\* regexp.ReplaceAllString(text, "[REDACTED]")
ReplaceAllString(pat, t) == Splice(t, Matches(pat, t), Redacted, 1)

\* redactPII: phone, then SSN, then email, each on the result of the one before
redactPII(text) ==
  ReplaceAllString("email", ReplaceAllString("ssn", ReplaceAllString("phone", text)))

(***************************************************************************)
(* Values                                                                  *)
(***************************************************************************)
Tenants == {"acme_corp", "beta_inc"}

\* "User 800-555-0199"
TextPhone ==
  <<"U", "s", "e", "r", " ", "8", "0", "0", "-", "5", "5", "5", "-", "0", "1", "9", "9">>

\* "raw log"
TextPlain == <<"r", "a", "w", " ", "l", "o", "g">>

\* "null" and "5": texts that are JSON documents but no JSON objects
TextNull == <<"n", "u", "l", "l">>

TextFive == <<"5">>

\* a JSON string value, a JSON number
JStr(v) == [type |-> "string", val |-> v]

JNum == [type |-> "number"]

\* A document (an HTTP body, a queue message body) is
\*   [kind |-> "text", raw |-> chars, json |-> "invalid" | "null" | "other"]
\*       a text given by its characters; json says what encoding/json makes of
\*       it: not JSON at all, the literal null, or a JSON value that is no object
\*   [kind |-> "object", obj |-> [key |-> JStr(..) | JNum]]
\*       the text of a JSON object, given by its members
RawDoc(chars) ==
  [kind |-> "text", raw |-> chars,
   json |-> IF chars = TextNull THEN "null"
            ELSE IF chars = TextFive THEN "other"
            ELSE "invalid"]

ObjDoc(obj) == [kind |-> "object", obj |-> obj]

\* the members of a JSON object, {} for null
Members(doc) == IF doc.kind = "object" THEN doc.obj ELSE <<>>

(***************************************************************************)
(* ingest/main.go                                                          *)
(***************************************************************************)
\* strings.ToLower on the header names the model uses
ToLower(name) ==
  CASE name = "Content-Type" -> "content-type"
    [] name = "X-Tenant-ID" -> "x-tenant-id"
    [] OTHER -> name

\* headers := make(map[string]string); headers[strings.ToLower(k)] = v
NormalizeHeaders(h) ==
  [n \in {ToLower(k) : k \in DOMAIN h} |->
     h[CHOOSE k \in DOMAIN h : ToLower(k) = n]]

\* a Go map read: the zero value when the key is absent
MapGet(m, k, zero) == IF k \in DOMAIN m THEN m[k] ELSE zero

\* strings.Contains on a header value, which is a sequence of pieces such as
\* <<"application/json", "; charset=utf-8">>: case-sensitive
Contains(v, lit) == \E i \in 1 .. Len(v) : v[i] = lit

\* json.Unmarshal(body, &bodyMap) fails, bodyMap being a map[string]interface{}:
\* the body is no JSON, or a JSON value that is neither an object nor null
UnmarshalMapFails(doc) == doc.kind = "text" /\ doc.json # "null"

\* bodyMap[k].(string): the value and ok
IsString(m, k) == k \in DOMAIN m /\ m[k].type = "string"

\* uuid.New().String(): the n-th identifier generated
NewUuid(n) == "uuid-" \o ToString(n)

Response(code, body) == [StatusCode |-> code, Body |-> body]

ErrorBody(reason) == [error |-> reason]

\* lines 39-71: the event the request is normalised to, or the reason it is
\* rejected ("" when it is not)
Normalize(req, uuid) ==
  LET headers == NormalizeHeaders(req.headers)
      contentType == MapGet(headers, "content-type", <<>>)
      bodyMap == Members(req.body)
  IN  IF Contains(contentType, "application/json")
      THEN IF UnmarshalMapFails(req.body)
           THEN [reject |-> "Invalid JSON"]
           ELSE [reject |-> "",
                 event |->
                   [tenant_id |-> IF IsString(bodyMap, "tenant_id")
                                  THEN bodyMap["tenant_id"].val ELSE "",
                    log_id |-> IF IsString(bodyMap, "log_id")
                               THEN bodyMap["log_id"].val ELSE uuid,
                    original_text |-> IF IsString(bodyMap, "text")
                                      THEN bodyMap["text"].val ELSE <<>>,
                    source |-> "json_upload"]]
      ELSE IF Contains(contentType, "text/plain")
      THEN [reject |-> "",
            event |-> [tenant_id |-> MapGet(headers, "x-tenant-id", ""),
                       log_id |-> uuid,
                       original_text |-> req.body.raw,
                       source |-> "text_upload"]]
      ELSE [reject |-> "Unsupported Content-Type"]

\* Validate without the check of the text
ValidateTenantOnly(event) ==
  IF event.tenant_id = "" THEN "Missing tenant_id" ELSE ""

\* Validate with its two checks in the other order
ValidateTextFirst(event) ==
  IF event.original_text = <<>> THEN "Missing text content"
  ELSE IF event.tenant_id = "" THEN "Missing tenant_id"
  ELSE ""

\* lines 73-81: the reason the normalised event is rejected, "" when it is valid
Validate(event) ==
  IF event.tenant_id = "" THEN "Missing tenant_id"
  ELSE IF event.original_text = <<>> THEN "Missing text content"
  ELSE ""

\* json.Marshal(logEvent): the JSON object of the four fields
MarshalEvent(event) ==
  ObjDoc([tenant_id |-> JStr(event.tenant_id),
          log_id |-> JStr(event.log_id),
          original_text |-> JStr(event.original_text),
          source |-> JStr(event.source)])

AcceptedBody(event) ==
  [status |-> "accepted", log_id |-> event.log_id,
   tenant_id |-> event.tenant_id, message |-> "Processing queued"]

\* IngestHandler with the error of SendMessage dropped
IngestHandlerIgnoresSendError(req, uuid, sendFails) ==
  LET n == Normalize(req, uuid)
  IN  IF n.reject # ""
      THEN [sends |-> <<>>, resp |-> Response(400, ErrorBody(n.reject))]
      ELSE IF Validate(n.event) # ""
      THEN [sends |-> <<>>, resp |-> Response(400, ErrorBody(Validate(n.event)))]
      ELSE [sends |-> <<MarshalEvent(n.event)>>,
            resp |-> Response(202, AcceptedBody(n.event))]

\* The handler of one request, given the identifier uuid.New() returns and
\* whether SendMessage fails: the message bodies it calls SendMessage with, in
\* order, and its response.
IngestHandler(req, uuid, sendFails) ==
  LET n == Normalize(req, uuid)
  IN  IF n.reject # ""
      THEN [sends |-> <<>>, resp |-> Response(400, ErrorBody(n.reject))]
      ELSE IF Validate(n.event) # ""
      THEN [sends |-> <<>>, resp |-> Response(400, ErrorBody(Validate(n.event)))]
      ELSE [sends |-> <<MarshalEvent(n.event)>>,
            resp |-> IF sendFails
                     THEN Response(500, ErrorBody("Internal server error"))
                     ELSE Response(202, AcceptedBody(n.event))]

(***************************************************************************)
(* main.tf: the table, the queue and the event source mapping              *)
(***************************************************************************)
\* hash_key and range_key of aws_dynamodb_table.logs_table
HashKey == "tenant_id"

RangeKey == "log_id"

\* redrive_policy of aws_sqs_queue.ingest_queue
maxReceiveCount == 3

\* batch_size of aws_lambda_event_source_mapping.sqs_trigger
batch_size == 5

SameKey(i, j) == i[HashKey] = j[HashKey] /\ i[RangeKey] = j[RangeKey]

\* a put that adds the item and leaves the one of its key in place
UpsertAppends(tbl, item) == tbl \cup {item}

\* a conditional put: the item is stored only if its key is free
UpsertKeepsFirst(tbl, item) ==
  IF \E i \in tbl : SameKey(i, item) THEN tbl ELSE tbl \cup {item}

\* the table after an unconditional put of item: the item replaces the one of
\* its key, if any
Upsert(tbl, item) == {i \in tbl : ~SameKey(i, item)} \cup {item}

\* dynamodb PutItem: [err, table]. The store rejects an item with an empty key
\* attribute, and may fail (fails) without writing; otherwise it upserts.
PutItem(tbl, item, fails) ==
  IF item[HashKey] = "" \/ item[RangeKey] = "" \/ fails
  THEN [err |-> TRUE, table |-> tbl]
  ELSE [err |-> FALSE, table |-> Upsert(tbl, item)]

\* a read scoped to one tenant: a Query on the partition key
Query(tbl, tenant) == {i \in tbl : i[HashKey] = tenant}

(***************************************************************************)
(* worker/main.go                                                          *)
(***************************************************************************)
ZeroEvent == [tenant_id |-> "", log_id |-> "", original_text |-> <<>>, source |-> ""]

\* json.Unmarshal(body, &event), event being a LogEvent: [err, event]. No JSON,
\* or a JSON value that is neither an object nor null, or a member of the wrong
\* type is an error; an absent member leaves the field's zero value.
UnmarshalEvent(doc) ==
  IF doc.kind = "text"
  THEN [err |-> doc.json # "null", event |-> ZeroEvent]
  ELSE LET m == doc.obj
       IN  [err |-> \E k \in DOMAIN ZeroEvent : k \in DOMAIN m /\ m[k].type # "string",
            event |-> [k \in DOMAIN ZeroEvent |->
                         IF IsString(m, k) THEN m[k].val ELSE ZeroEvent[k]]]

\* 50 * time.Millisecond per character, capped at 5 * time.Second (in ms)
SleepPerCharMs == 50

SleepCapMs == 5000

\* the sleep without its cap
SleepDurationUncapped(text) == Len(text) * SleepPerCharMs

SleepDuration(text) ==
  IF Len(text) * SleepPerCharMs > SleepCapMs THEN SleepCapMs
  ELSE Len(text) * SleepPerCharMs

\* time.Now().UTC().Format(time.RFC3339): whole seconds of a clock that counts
\* half seconds
FormatRFC3339(now) == now \div 2

\* redactPII on the texts of the pipeline, evaluated once
RedactTable == [t \in {TextPhone, TextPlain} |-> redactPII(t)]

\* redactPII(text), looked up where the text is one of RedactTable
Redaction(text) ==
  IF text \in DOMAIN RedactTable THEN RedactTable[text] ELSE redactPII(text)

\* the Item with the redacted text stored as original_text too
BuildItemRedactsOriginal(event, now) ==
  [tenant_id |-> event.tenant_id,
   log_id |-> event.log_id,
   source |-> event.source,
   original_text |-> Redaction(event.original_text),
   modified_data |-> Redaction(event.original_text),
   processed_at |-> FormatRFC3339(now),
   status |-> "PROCESSED"]

\* the Item with the two key attributes taken from each other's field
BuildItemSwapsKeys(event, now) ==
  [tenant_id |-> event.log_id,
   log_id |-> event.tenant_id,
   source |-> event.source,
   original_text |-> event.original_text,
   modified_data |-> Redaction(event.original_text),
   processed_at |-> FormatRFC3339(now),
   status |-> "PROCESSED"]

\* the Item of the PutItemInput
BuildItem(event, now) ==
  [tenant_id |-> event.tenant_id,
   log_id |-> event.log_id,
   source |-> event.source,
   original_text |-> event.original_text,
   modified_data |-> Redaction(event.original_text),
   processed_at |-> FormatRFC3339(now),
   status |-> "PROCESSED"]

\* processMessage with the error of json.Unmarshal dropped: it goes on with
\* what was decoded
processMessageGoesOn(body, tbl, now, putFails) ==
  LET u == UnmarshalEvent(body)
      item == BuildItem(u.event, now)
      p == PutItem(tbl, item, putFails)
  IN  [err |-> IF p.err THEN "put" ELSE "",
       slept |-> SleepDuration(u.event.original_text),
       puts |-> <<item>>,
       written |-> IF p.err THEN <<>> ELSE <<item>>,
       table |-> p.table]

\* processMessage with the error of PutItem dropped
processMessageIgnoresPutError(body, tbl, now, putFails) ==
  LET u == UnmarshalEvent(body)
      item == BuildItem(u.event, now)
      p == PutItem(tbl, item, putFails)
  IN  IF u.err
      THEN [err |-> "unmarshal", slept |-> -1, puts |-> <<>>, written |-> <<>>,
            table |-> tbl]
      ELSE [err |-> "",
            slept |-> SleepDuration(u.event.original_text),
            puts |-> <<item>>,
            written |-> IF p.err THEN <<>> ELSE <<item>>,
            table |-> p.table]

\* processMessage on a message body, the table being tbl, the clock now, and
\* the store failing the put or not:
\*   err      "" (nil), "unmarshal" or "put"
\*   slept    the time.Sleep made, in ms (-1: none)
\*   puts     the items PutItem was called with
\*   written  the items the store took
\*   table    the table afterwards
processMessage(body, tbl, now, putFails) ==
  LET u == UnmarshalEvent(body)
      item == BuildItem(u.event, now)
      p == PutItem(tbl, item, putFails)
  IN  IF u.err
      THEN [err |-> "unmarshal", slept |-> -1, puts |-> <<>>, written |-> <<>>,
            table |-> tbl]
      ELSE [err |-> IF p.err THEN "put" ELSE "",
            slept |-> SleepDuration(u.event.original_text),
            puts |-> <<item>>,
            written |-> IF p.err THEN <<>> ELSE <<item>>,
            table |-> p.table]

\* HandlerStep with the error kept from one turn of the loop to the next: once
\* a message has failed, every later one is listed too
HandlerStepSticky(failures, messageId, err) ==
  IF err # "" \/ failures # <<>>
  THEN Append(failures, [ItemIdentifier |-> messageId])
  ELSE failures

\* the body of the handler's loop for one message: the failures after it
HandlerStep(failures, messageId, err) ==
  IF err # "" THEN Append(failures, [ItemIdentifier |-> messageId]) ELSE failures

\* the identifiers of a BatchItemFailures list
FailedIds(failures) == {failures[k].ItemIdentifier : k \in 1 .. Len(failures)}

(***************************************************************************)
(* Inputs                                                                  *)
(***************************************************************************)
CtJson == <<"application/json">>

CtJsonCharset == <<"application/json", "; charset=utf-8">>

CtJsonUpper == <<"APPLICATION/JSON">>

CtText == <<"text/plain">>

CtOther == <<"image/png">>

NoHeader == <<>>

\* the Content-Type header: absent, or under one of its spellings
CtHeaders ==
  {NoHeader, "content-type" :> CtJson}
    \cup {"Content-Type" :> v : v \in {CtJson, CtJsonCharset, CtJsonUpper, CtText, CtOther}}

\* the X-Tenant-ID header
TenantHeaders ==
  {NoHeader, "x-tenant-id" :> "beta_inc", "X-Tenant-ID" :> "acme_corp", "X-Tenant-ID" :> ""}

\* a JSON object of the members given (Absent: the member is not there)
Absent == [type |-> "absent"]

Obj(tenant, text, logId) ==
  LET all == [tenant_id |-> tenant, text |-> text, log_id |-> logId]
  IN  ObjDoc([k \in {j \in DOMAIN all : all[j] # Absent} |-> all[k]])

ObjectBodies ==
  {Obj(tenant, text, logId) :
     tenant \in {Absent, JNum, JStr(""), JStr("acme_corp")},
     text \in {Absent, JNum, JStr(<<>>), JStr(TextPhone)},
     logId \in {Absent, JNum, JStr(""), JStr("101")}}

RawBodies == {RawDoc(c) : c \in {<<>>, TextPlain, TextNull, TextFive}}

IsTextType(h) == Contains(MapGet(NormalizeHeaders(h), "content-type", <<>>), "text/plain")

\* Every request the ingest handler is checked on. A text upload carries a raw
\* body; the X-Tenant-ID header takes all its forms on text uploads, and is
\* absent or beta_inc otherwise.
AllRequests ==
  {r \in [headers : {c @@ t : c \in CtHeaders, t \in TenantHeaders},
          body : ObjectBodies \cup RawBodies] :
     IF IsTextType(r.headers)
     THEN r.body \in RawBodies
     ELSE \A k \in DOMAIN r.headers : ToLower(k) = "x-tenant-id" => k = "x-tenant-id"}

\* the requests of the whole pipeline: JSON and text uploads of two tenants,
\* two of them under the same key, and one request that is rejected
PipelineRequests ==
  {[headers |-> "Content-Type" :> CtJson,
    body |-> Obj(JStr(t), JStr(TextPhone), JStr("101"))] : t \in Tenants}
    \cup {[headers |-> ("Content-Type" :> CtText) @@ ("X-Tenant-ID" :> "beta_inc"),
           body |-> RawDoc(TextPlain)],
          [headers |-> "Content-Type" :> CtText, body |-> RawDoc(TextPlain)]}

\* message bodies that do not come from the ingest handler: no JSON, and an
\* object without tenant_id and log_id
ForeignBodies ==
  {RawDoc(TextPlain),
   ObjDoc([original_text |-> JStr(TextPlain)])}

NoRequest == [headers |-> NoHeader, body |-> RawDoc(<<>>)]

NoResponse == Response(0, ErrorBody(""))

NoItem == BuildItem(ZeroEvent, 0)

(***************************************************************************)
(* State                                                                   *)
(***************************************************************************)
VARIABLES
  ing,      \* the ingest invocation: [pc, req, sends, resp, msg]
  nreq,     \* ingest invocations so far (and identifiers generated)
  msgs,     \* the queue: msgs[i] = [body, origin, state, receives], i the MessageId
  hist,     \* per message: the request it comes from, the number of items
            \* written for it, the first and the last of them
  wk,       \* the worker invocations: [pc, batch, failures, outcomes], the
            \* outcomes being what processMessage did for each message so far
  table,    \* the items of MultiTenantLogs
  clock,    \* the time, in half seconds
  aborts,   \* worker invocations aborted so far
  input,    \* the text given to redactPII (SpecRedact)
  output    \* what redactPII returned for it

vars == <<ing, nreq, msgs, hist, wk, table, clock, aborts, input, output>>

NumWorkers == 1

Workers == 1 .. NumWorkers

\* the invocations of the worker Lambda that can run at the same time: those
\* the pipeline schedules, and one more that runs beside them in SpecConcurrent
Invocations == 1 .. NumWorkers + 1

IdleIngest == [pc |-> "idle", req |-> NoRequest, sends |-> <<>>, resp |-> NoResponse, msg |-> 0]

IdleWorker == [pc |-> "idle", batch |-> <<>>, failures |-> <<>>, outcomes |-> <<>>]

Init ==
  /\ ing = IdleIngest
  /\ nreq = 0
  /\ msgs = <<>>
  /\ hist = <<>>
  /\ wk = [w \in Invocations |-> IdleWorker]
  /\ table = {}
  /\ clock = 0
  /\ aborts = 0
  /\ input = <<>>
  /\ output = <<>>

MsgIds == 1 .. Len(msgs)

\* sqs SendMessage: the message is on the queue, visible, never received
Enqueue(body, origin, req) ==
  /\ Len(msgs) < MaxMessages
  /\ msgs' = Append(msgs, [body |-> body, origin |-> origin,
                           state |-> "visible", receives |-> 0])
  /\ hist' = Append(hist, [req |-> req, writes |-> 0, first |-> NoItem, last |-> NoItem])

(***************************************************************************)
(* The ingest Lambda                                                       *)
(***************************************************************************)
\* The handler up to the return of SendMessage. A rejected request, or one
\* whose SendMessage failed, is answered at once; after a successful
\* SendMessage the message is on the queue and the 202 is still to be returned.
IngestHandle(req, sendFails) ==
  LET h == IngestHandler(req, NewUuid(nreq + 1), sendFails)
      sent == h.sends # <<>> /\ ~sendFails
  IN  /\ ing.pc # "sent"
      /\ nreq < MaxRequests
      /\ nreq' = nreq + 1
      /\ IF sent
         THEN /\ Enqueue(h.sends[1], "ingest", req)
              /\ ing' = [pc |-> "sent", req |-> req, sends |-> h.sends,
                         resp |-> h.resp, msg |-> Len(msgs) + 1]
         ELSE /\ ing' = [pc |-> "done", req |-> req, sends |-> h.sends,
                         resp |-> h.resp, msg |-> 0]
              /\ UNCHANGED <<msgs, hist>>
      /\ UNCHANGED <<wk, table, clock, aborts, input, output>>

\* a handler that holds its 202 back until the event has been written
IngestReturnAfterProcessing ==
  /\ ing.pc = "sent"
  /\ hist[ing.msg].writes > 0
  /\ ing' = [ing EXCEPT !.pc = "done"]
  /\ UNCHANGED <<nreq, msgs, hist, wk, table, clock, aborts, input, output>>

\* the handler returns the 202 it built
IngestReturn ==
  /\ ing.pc = "sent"
  /\ ing' = [ing EXCEPT !.pc = "done"]
  /\ UNCHANGED <<nreq, msgs, hist, wk, table, clock, aborts, input, output>>

Ingest == \E req \in PipelineRequests, sendFails \in BOOLEAN : IngestHandle(req, sendFails)

IngestAny == \E req \in AllRequests, sendFails \in BOOLEAN : IngestHandle(req, sendFails)

\* somebody else puts a message on the queue
ForeignSend ==
  /\ \E body \in ForeignBodies : Enqueue(body, "foreign", NoRequest)
  /\ UNCHANGED <<ing, nreq, wk, table, clock, aborts, input, output>>

(***************************************************************************)
(* The queue's delivery and the worker Lambda                              *)
(***************************************************************************)
Range(f) == {f[k] : k \in DOMAIN f}

Min(a, b) == IF a < b THEN a ELSE b

\* the batches the event source mapping can make of the messages S: at most
\* batch_size of them, in any order
Batches(S) ==
  {b \in UNION {[1 .. n -> S] : n \in 1 .. Min(Cardinality(S), batch_size)} :
     \A j, k \in DOMAIN b : j # k => b[j] # b[k]}

\* messages the queue still delivers: visible and received fewer than
\* maxReceiveCount times
Deliverable == {i \in MsgIds : msgs[i].state = "visible" /\ msgs[i].receives < maxReceiveCount}

SetState(ids, state) ==
  [i \in MsgIds |-> IF i \in ids THEN [msgs[i] EXCEPT !.state = state] ELSE msgs[i]]

\* the event source mapping receives a batch and invokes the handler with it
WorkerPoll(w) ==
  /\ wk[w].pc = "idle"
  /\ \E b \in Batches(Deliverable) :
       /\ msgs' = [i \in MsgIds |->
                     IF i \in Range(b)
                     THEN [msgs[i] EXCEPT !.state = "inflight", !.receives = @ + 1]
                     ELSE msgs[i]]
       /\ wk' = [wk EXCEPT ![w] = [pc |-> "running", batch |-> b,
                                   failures |-> <<>>, outcomes |-> <<>>]]
  /\ UNCHANGED <<ing, nreq, hist, table, clock, aborts, input, output>>

\* a loop that is left at the first message that failed
WorkerProcessStopsOnError(w) ==
  /\ wk[w].pc = "running"
  /\ Len(wk[w].outcomes) < Len(wk[w].batch)
  /\ wk[w].failures = <<>>
  /\ \E putFails \in BOOLEAN, i \in {wk[w].batch[Len(wk[w].outcomes) + 1]} :
       \E r \in {processMessage(msgs[i].body, table, clock, putFails)} :
           /\ table' = r.table
           /\ wk' = [wk EXCEPT
                       ![w].failures = HandlerStep(@, i, r.err),
                       ![w].outcomes = Append(@, [err |-> r.err, slept |-> r.slept,
                                                  puts |-> Len(r.puts),
                                                  written |-> Len(r.written)])]
           /\ hist' = IF r.written # <<>>
                      THEN [hist EXCEPT ![i].writes = @ + 1,
                                        ![i].first = IF hist[i].writes = 0
                                                     THEN r.written[1] ELSE @,
                                        ![i].last = r.written[1]]
                      ELSE hist
  /\ UNCHANGED <<ing, nreq, msgs, clock, aborts, input, output>>

\* one turn of the handler's loop: processMessage on the next message of the batch
WorkerProcess(w) ==
  /\ wk[w].pc = "running"
  /\ Len(wk[w].outcomes) < Len(wk[w].batch)
  /\ \E putFails \in BOOLEAN, i \in {wk[w].batch[Len(wk[w].outcomes) + 1]} :
       \E r \in {processMessage(msgs[i].body, table, clock, putFails)} :
           /\ table' = r.table
           /\ wk' = [wk EXCEPT
                       ![w].failures = HandlerStep(@, i, r.err),
                       ![w].outcomes = Append(@, [err |-> r.err, slept |-> r.slept,
                                                  puts |-> Len(r.puts),
                                                  written |-> Len(r.written)])]
           /\ hist' = IF r.written # <<>>
                      THEN [hist EXCEPT ![i].writes = @ + 1,
                                        ![i].first = IF hist[i].writes = 0
                                                     THEN r.written[1] ELSE @,
                                        ![i].last = r.written[1]]
                      ELSE hist
  /\ UNCHANGED <<ing, nreq, msgs, clock, aborts, input, output>>

\* an event source mapping that deletes the whole batch, listed or not
WorkerReturnDeletesAll(w) ==
  /\ wk[w].pc = "running"
  /\ Len(wk[w].outcomes) = Len(wk[w].batch)
  /\ msgs' = SetState(Range(wk[w].batch), "deleted")
  /\ wk' = [wk EXCEPT ![w] = IdleWorker]
  /\ UNCHANGED <<ing, nreq, hist, table, clock, aborts, input, output>>

\* the handler returns BatchItemFailures: the event source mapping deletes the
\* messages not listed; the listed ones become visible again
WorkerReturn(w) ==
  /\ wk[w].pc = "running"
  /\ Len(wk[w].outcomes) = Len(wk[w].batch)
  /\ msgs' = [i \in MsgIds |->
                IF i \in Range(wk[w].batch)
                THEN [msgs[i] EXCEPT !.state = IF i \in FailedIds(wk[w].failures)
                                                THEN "visible" ELSE "deleted"]
                ELSE msgs[i]]
  /\ wk' = [wk EXCEPT ![w] = IdleWorker]
  /\ UNCHANGED <<ing, nreq, hist, table, clock, aborts, input, output>>

\* the host aborts the invocation: nothing is deleted, and the whole batch
\* becomes visible again when its visibility timeout ends
WorkerAbort(w) ==
  /\ wk[w].pc = "running"
  /\ aborts < MaxAborts
  /\ aborts' = aborts + 1
  /\ msgs' = SetState(Range(wk[w].batch), "visible")
  /\ wk' = [wk EXCEPT ![w] = IdleWorker]
  /\ UNCHANGED <<ing, nreq, hist, table, clock, input, output>>

\* redrive_policy: a message received maxReceiveCount times goes to the
\* dead-letter queue instead of being delivered again
Redrive ==
  /\ \E i \in MsgIds :
       /\ msgs[i].state = "visible"
       /\ msgs[i].receives >= maxReceiveCount
       /\ msgs' = SetState({i}, "dlq")
  /\ UNCHANGED <<ing, nreq, hist, wk, table, clock, aborts, input, output>>

Tick ==
  /\ clock < MaxClock
  /\ clock' = clock + 1
  /\ UNCHANGED <<ing, nreq, msgs, hist, wk, table, aborts, input, output>>

Poll == \E w \in Workers : WorkerPoll(w)

Process == \E w \in Workers : WorkerProcess(w)

Return == \E w \in Workers : WorkerReturn(w)

Abort == \E w \in Workers : WorkerAbort(w)

Next ==
  \/ Ingest
  \/ IngestReturn
  \/ ForeignSend
  \/ Poll
  \/ Process
  \/ Return
  \/ Abort
  \/ Redrive
  \/ Tick

\* the pipeline
Spec == Init /\ [][Next]_vars

\* the pipeline with the clock standing still: the time of a write decides
\* processed_at only, not where a message ends
NextQueue ==
  \/ Ingest
  \/ IngestReturn
  \/ ForeignSend
  \/ Poll
  \/ Process
  \/ Return
  \/ Abort
  \/ Redrive

\* The pipeline under the scheduling the services give: the handler that was
\* invoked runs on and returns, the event source mapping keeps polling, the
\* queue applies its redrive policy.
FairSpec ==
  /\ Init
  /\ [][NextQueue]_vars
  /\ WF_vars(IngestReturn)
  /\ WF_vars(Poll)
  /\ WF_vars(Process)
  /\ WF_vars(Return)
  /\ WF_vars(Redrive)

\* Message bodies the worker can receive, whoever sent them: no JSON; JSON
\* that is no object ("5", "null"); objects with members absent, empty or of
\* the wrong type; and the event of a valid upload.
WorkerBodies ==
  {RawDoc(TextPlain), RawDoc(TextFive), RawDoc(TextNull),
   ObjDoc([original_text |-> JStr(TextPlain)]),
   ObjDoc([tenant_id |-> JStr("acme_corp"), log_id |-> JStr("101")]),
   ObjDoc([tenant_id |-> JStr("acme_corp"), log_id |-> JStr("101"),
           original_text |-> JNum]),
   ObjDoc([tenant_id |-> JStr("acme_corp"), log_id |-> JStr(""),
           original_text |-> JStr(TextPlain)]),
   MarshalEvent([tenant_id |-> "acme_corp", log_id |-> "102",
                 original_text |-> TextPlain, source |-> "json_upload"])}

\* a message with one of these bodies is put on the queue
QueueSend ==
  /\ \E body \in WorkerBodies : Enqueue(body, "foreign", NoRequest)
  /\ UNCHANGED <<ing, nreq, wk, table, clock, aborts, input, output>>

\* the queue and the worker alone, on every message body
NextWorker ==
  \/ QueueSend
  \/ Poll
  \/ Process
  \/ Return
  \/ Redrive

SpecWorker == Init /\ [][NextWorker]_vars

\* events of valid uploads, two of them with the same key and different
\* texts, one under another log_id and one of another tenant
KeyedBodies ==
  {MarshalEvent([tenant_id |-> "acme_corp", log_id |-> "101",
                 original_text |-> TextPhone, source |-> "json_upload"]),
   MarshalEvent([tenant_id |-> "acme_corp", log_id |-> "101",
                 original_text |-> TextPlain, source |-> "json_upload"]),
   MarshalEvent([tenant_id |-> "acme_corp", log_id |-> "102",
                 original_text |-> TextPlain, source |-> "json_upload"]),
   MarshalEvent([tenant_id |-> "beta_inc", log_id |-> "101",
                 original_text |-> TextPlain, source |-> "json_upload"])}

KeyedSend ==
  /\ \E body \in KeyedBodies : Enqueue(body, "foreign", NoRequest)
  /\ UNCHANGED <<ing, nreq, wk, table, clock, aborts, input, output>>

PollAny == \E w \in Invocations : WorkerPoll(w)

ProcessAny == \E w \in Invocations : WorkerProcess(w)

ReturnAny == \E w \in Invocations : WorkerReturn(w)

AbortAny == \E w \in Invocations : WorkerAbort(w)

\* the queue and several invocations of the worker at the same time
NextConcurrent ==
  \/ KeyedSend
  \/ PollAny
  \/ ProcessAny
  \/ ReturnAny
  \/ AbortAny
  \/ Redrive
  \/ Tick

SpecConcurrent == Init /\ [][NextConcurrent]_vars

\* the ingest handler alone, on every request
NextIngest ==
  \/ IngestAny
  \/ IngestReturn

SpecIngest == Init /\ [][NextIngest]_vars

(***************************************************************************)
(* redactPII alone, on the texts made of at most MaxTokens pieces          *)
(***************************************************************************)
RedactTokens ==
  {<<"5", "5", "5", "-", "5", "5", "5", "-", "5", "5", "5", "5">>,
   <<"5", "5", "5", "-", "5", "5", "-", "5", "5", "5", "5">>,
   <<"5">>,
   <<"a">>,
   <<"@">>,
   <<".">>,
   <<"-">>}

RECURSIVE Flatten(_)
Flatten(pieces) ==
  IF pieces = <<>> THEN <<>> ELSE Head(pieces) \o Flatten(Tail(pieces))

InputText == Flatten(input)

Redact ==
  /\ Len(input) < MaxTokens
  /\ \E tok \in RedactTokens :
       /\ input' = Append(input, tok)
       /\ output' = redactPII(Flatten(input'))
  /\ UNCHANGED <<ing, nreq, msgs, hist, wk, table, clock, aborts>>

NextRedact == Redact

SpecRedact == Init /\ [][NextRedact]_vars

(***************************************************************************)
(* The sleeps of one batch: input is the original_text of each message of  *)
(* the batch, output the time.Sleep made for each, in ms                   *)
(***************************************************************************)
TextOfLen(n) == [i \in 1 .. n |-> "a"]

\* the first text has any length up to MaxTextLen; the later ones are empty,
\* as long as the cap allows without being cut, or of the greatest length
SleepLengths ==
  IF input = <<>> THEN 0 .. MaxTextLen
  ELSE {0, SleepCapMs \div SleepPerCharMs, MaxTextLen}

Sleep ==
  /\ Len(input) < batch_size
  /\ \E n \in SleepLengths :
       /\ input' = Append(input, TextOfLen(n))
       /\ output' = Append(output, SleepDuration(TextOfLen(n)))
  /\ UNCHANGED <<ing, nreq, msgs, hist, wk, table, clock, aborts>>

NextSleep == Sleep

SpecSleep == Init /\ [][NextSleep]_vars

(***************************************************************************)
(* Properties                                                              *)
(***************************************************************************)
\* the handler of w has been through its whole batch and is about to return
AtReturn(w) == wk[w].pc = "running" /\ Len(wk[w].outcomes) = Len(wk[w].batch)

\* the turns of the loop the handler of w has made
Turns(w) == 1 .. Len(wk[w].outcomes)

Failed(w, k) == wk[w].outcomes[k].err # ""

Listed(w, k) == wk[w].batch[k] \in FailedIds(wk[w].failures)

\* C1 - partial-failure isolation: when the handler returns, every message of
\* the batch was attempted, and whenever some message of the batch failed
\* (deserialization or store write), every message whose own processing
\* succeeded was written to the store in this invocation, its record is in the
\* table, and it is not in the returned failure list, wherever the failed
\* message stands in the batch.
C1_PartialFailureIsolation ==
  \A w \in Workers :
    AtReturn(w) =>
      \A m, k \in DOMAIN wk[w].batch :
        (Failed(w, m) /\ ~Failed(w, k)) =>
          /\ ~Listed(w, k)
          /\ wk[w].outcomes[k].written = 1
          /\ \E it \in table : SameKey(it, hist[wk[w].batch[k]].last)

\* a handler about to return a batch whose first message failed to
\* deserialize and whose second message was written
C1_Witness ==
  \E w \in Workers :
    /\ AtReturn(w)
    /\ Len(wk[w].batch) = 2
    /\ wk[w].outcomes[1].err = "unmarshal"
    /\ wk[w].outcomes[2].err = ""
    /\ FailedIds(wk[w].failures) = {wk[w].batch[1]}

\* C2 - the failure list is exact: a message the handler has been through is in
\* BatchItemFailures if and only if processMessage returned an error for it; a
\* message not listed had its record written by this invocation, a listed one
\* had none written by it; and a message the queue has deleted (acknowledged)
\* has had its record written.
C2_FailureListExact ==
  /\ \A w \in Workers : \A k \in Turns(w) :
       /\ Listed(w, k) <=> Failed(w, k)
       /\ ~Listed(w, k) => wk[w].outcomes[k].written = 1
       /\ Listed(w, k) => wk[w].outcomes[k].written = 0
  /\ \A w \in Workers :
       FailedIds(wk[w].failures) \subseteq {wk[w].batch[k] : k \in Turns(w)}
  /\ \A i \in MsgIds : msgs[i].state = "deleted" => hist[i].writes >= 1

\* a handler about to return with one message listed because its put failed
\* and another one written and not listed
C2_Witness ==
  \E w \in Workers :
    /\ AtReturn(w)
    /\ \E m, k \in Turns(w) :
         /\ wk[w].outcomes[m].err = "put" /\ Listed(w, m)
         /\ wk[w].outcomes[k].written = 1 /\ ~Listed(w, k)

(***************************************************************************)
(* What a request supplies, read off the request itself                    *)
(***************************************************************************)
ContentTypeOf(req) == MapGet(NormalizeHeaders(req.headers), "content-type", <<>>)

JsonPath(req) == Contains(ContentTypeOf(req), "application/json")

TextPath(req) == ~JsonPath(req) /\ Contains(ContentTypeOf(req), "text/plain")

Parsed(req) == (JsonPath(req) /\ ~UnmarshalMapFails(req.body)) \/ TextPath(req)

\* the tenant the caller supplied: the JSON member tenant_id, or the header
\* X-Tenant-ID of a text upload ("" when there is none)
SuppliedTenant(req) ==
  IF JsonPath(req)
  THEN IF IsString(Members(req.body), "tenant_id")
       THEN Members(req.body)["tenant_id"].val ELSE ""
  ELSE MapGet(NormalizeHeaders(req.headers), "x-tenant-id", "")

\* the text the caller supplied: the JSON member text, or the body of a text upload
SuppliedText(req) ==
  IF JsonPath(req)
  THEN IF IsString(Members(req.body), "text")
       THEN Members(req.body)["text"].val ELSE <<>>
  ELSE req.body.raw

\* the reason of the lowest-numbered check the request fails, "" when it passes all
ExpectedReason(req) ==
  IF ~JsonPath(req) /\ ~TextPath(req) THEN "Unsupported Content-Type"
  ELSE IF ~Parsed(req) THEN "Invalid JSON"
  ELSE IF SuppliedTenant(req) = "" THEN "Missing tenant_id"
  ELSE IF SuppliedText(req) = <<>> THEN "Missing text content"
  ELSE ""

\* the event of message i, as the JSON members of its body
Member(i, k) == msgs[i].body.obj[k].val

FromIngest == {i \in MsgIds : msgs[i].origin = "ingest"}

\* C3 - validation completeness: a request normalised to an empty or missing
\* tenant_id or original_text is answered 400 without any SendMessage call, and
\* every event the ingest handler has put on the queue has a non-empty
\* tenant_id, a non-empty original_text and a source of json_upload or
\* text_upload.
C3_ValidationCompleteness ==
  /\ (/\ ing.pc # "idle"
      /\ Parsed(ing.req)
      /\ SuppliedTenant(ing.req) = "" \/ SuppliedText(ing.req) = <<>>)
       => /\ ing.resp.StatusCode = 400
          /\ ing.sends = <<>>
          /\ ing.msg = 0
  /\ \A i \in FromIngest :
       /\ msgs[i].body.kind = "object"
       /\ Member(i, "tenant_id") # ""
       /\ Member(i, "original_text") # <<>>
       /\ Member(i, "source") \in {"json_upload", "text_upload"}

\* a request with a tenant but an empty text was rejected without a
\* SendMessage, an earlier event being on the queue
C3_Witness ==
  /\ ing.pc = "done"
  /\ Parsed(ing.req)
  /\ SuppliedTenant(ing.req) # ""
  /\ SuppliedText(ing.req) = <<>>
  /\ ing.resp = Response(400, ErrorBody("Missing text content"))
  /\ ing.sends = <<>>
  /\ Len(msgs) = 1

\* C4 - enqueue exactly once: for a valid request the handler calls SendMessage
\* once, with the serialized event; it answers 202 (status accepted, the
\* event's log_id and tenant_id) if and only if that call put the message on
\* the queue, and 500 'Internal server error' otherwise; no request is
\* answered 202 without its event on the queue.
C4_EnqueueOnce ==
  /\ Len(ing.sends) <= 1
  /\ Len(msgs) <= nreq
  /\ ing.resp.StatusCode = 202 => ing.msg # 0
  /\ (ing.pc # "idle" /\ ExpectedReason(ing.req) = "") =>
       /\ Len(ing.sends) = 1
       /\ ing.resp.StatusCode = 202 <=> ing.msg # 0
       /\ ing.msg = 0 => ing.resp = Response(500, ErrorBody("Internal server error"))
       /\ ing.msg # 0 =>
            /\ ing.msg \in MsgIds
            /\ msgs[ing.msg].body = ing.sends[1]
            /\ ing.resp.Body.status = "accepted"
            /\ ing.resp.Body.log_id = Member(ing.msg, "log_id")
            /\ ing.resp.Body.tenant_id = Member(ing.msg, "tenant_id")
            /\ ing.resp.Body.tenant_id = SuppliedTenant(ing.req)

\* a valid request whose SendMessage failed was answered 500 after one call,
\* and the queue holds only the event of an earlier request
C4_Witness ==
  /\ ing.pc = "done"
  /\ ExpectedReason(ing.req) = ""
  /\ ing.resp.StatusCode = 500
  /\ Len(ing.sends) = 1
  /\ nreq = 2
  /\ Len(msgs) = 1

\* the messages whose event the worker has written at least once
Written == {i \in MsgIds : hist[i].writes > 0}

\* the items of the table under the key of item
UnderKey(item) == {it \in table : SameKey(it, item)}

\* C5 - idempotence under redelivery, as the code has it: a message written
\* two or more times leaves one record under its key, no duplicate and no
\* accumulation, and the record of the latest write equals the record of the
\* first in every attribute except processed_at, which is the time of the
\* write and never earlier than that of the first.
C5_IdempotentUpToProcessedAt ==
  /\ \A i \in Written :
       /\ Cardinality(UnderKey(hist[i].last)) = 1
       /\ [hist[i].last EXCEPT !.processed_at = hist[i].first.processed_at] = hist[i].first
       /\ hist[i].last.processed_at >= hist[i].first.processed_at
  /\ Cardinality(table) <= Cardinality(Written)

\* a message written twice, at two different times, its latest record stored
C5_Witness ==
  \E i \in MsgIds :
    /\ hist[i].writes >= 2
    /\ hist[i].last.processed_at # hist[i].first.processed_at
    /\ hist[i].last \in table

\* C5 as stated: one record under the key, and the stored record after the
\* second write equals the stored record after the first.
C5_RecordUnchanged ==
  \A i \in Written :
    /\ Cardinality(UnderKey(hist[i].last)) = 1
    /\ hist[i].writes >= 2 => hist[i].last = hist[i].first

\* C6 - tenant isolation end to end: every record of the store is the latest
\* record of a message, it is returned by the read scoped to its own
\* tenant_id and by no read scoped to another tenant, and the tenant_id of a
\* record written for an event of the ingest handler is the tenant the caller
\* supplied (JSON member tenant_id, or header X-Tenant-ID of a text upload).
C6_TenantIsolation ==
  /\ \A it \in table :
       /\ \E i \in Written : hist[i].last = it
       /\ it \in Query(table, it.tenant_id)
       /\ \A t \in Tenants \cup {""} : it \in Query(table, t) => it.tenant_id = t
  /\ \A i \in Written :
       /\ hist[i].first.tenant_id = hist[i].last.tenant_id
       /\ msgs[i].origin = "ingest" =>
            hist[i].last.tenant_id = SuppliedTenant(hist[i].req)

\* records of two tenants are stored, one from a JSON upload and one from a
\* text upload, and each scoped read returns its own tenant's record
C6_Witness ==
  /\ Query(table, "acme_corp") # {}
  /\ Query(table, "beta_inc") # {}
  /\ \E i, j \in Written :
       /\ JsonPath(hist[i].req) /\ TextPath(hist[j].req)
       /\ hist[i].last.tenant_id # hist[j].last.tenant_id

\* message i ended: deleted after a successful invocation, or dead-lettered
Ended(i) == i \in MsgIds /\ msgs[i].state \in {"deleted", "dlq"}

\* C7 - eventual outcome: no message is delivered more than maxReceiveCount
\* times; a message is deleted only after its event has been written, and is
\* dead-lettered only after maxReceiveCount deliveries; and every message on
\* the queue eventually ends deleted (its event persisted) or in the
\* dead-letter queue.
C7_EventualOutcome ==
  /\ [](\A i \in MsgIds :
          /\ msgs[i].receives <= maxReceiveCount
          /\ msgs[i].state = "deleted" => hist[i].writes >= 1
          /\ msgs[i].state = "dlq" => msgs[i].receives = maxReceiveCount)
  /\ \A i \in 1 .. MaxMessages : (i \in MsgIds) ~> Ended(i)

\* a message that failed on each of its maxReceiveCount deliveries is in the
\* dead-letter queue, nothing written for it
C7_Witness ==
  \E i \in MsgIds :
    /\ msgs[i].state = "dlq"
    /\ msgs[i].receives = maxReceiveCount
    /\ hist[i].writes = 0

\* C8 - validation order: the response is the 400 of the lowest-numbered check
\* the request fails, in the order unsupported content type, malformed JSON
\* body, missing tenant_id, missing text; a request that passes all four is
\* not answered 400.
C8_ValidationOrder ==
  ing.pc # "idle" =>
    IF ExpectedReason(ing.req) # ""
    THEN ing.resp = Response(400, ErrorBody(ExpectedReason(ing.req)))
    ELSE ing.resp.StatusCode # 400

\* a JSON request with neither tenant_id nor text was answered 'Missing tenant_id'
C8_Witness ==
  /\ ing.pc = "done"
  /\ JsonPath(ing.req)
  /\ Parsed(ing.req)
  /\ SuppliedTenant(ing.req) = ""
  /\ SuppliedText(ing.req) = <<>>
  /\ ing.resp = Response(400, ErrorBody("Missing tenant_id"))

\* C9 - the 202 does not wait for processing: once SendMessage has put the
\* event on the queue the handler holds the 202 it will return and can return
\* it at once, whatever the worker has or has not done with the event; the
\* worker's steps on the event follow its SendMessage, and may precede the
\* return of the 202.
C9_ResponseDoesNotWait ==
  /\ ing.pc = "sent" =>
       /\ ENABLED IngestReturn
       /\ ing.resp = Response(202, AcceptedBody(UnmarshalEvent(msgs[ing.msg].body).event))
  /\ \A i \in MsgIds : msgs[i].state = "visible" /\ msgs[i].receives = 0 => hist[i].writes = 0

\* the worker has written the event while the handler that queued it has
\* not yet returned its 202
C9_Witness ==
  /\ ing.pc = "sent"
  /\ hist[ing.msg].writes > 0
  /\ ing.resp.StatusCode = 202

\* C9 as stated: no worker step for the event precedes the return of its 202.
C9_NoWorkerStepBeforeReturn ==
  ing.pc = "sent" => msgs[ing.msg].receives = 0

Patterns == {"phone", "ssn", "email"}

\* The characters of text that redactPII keeps: the positions in text of the
\* characters of its result, 0 for a character of a [REDACTED].
Kept(text) ==
  LET blank == [i \in 1 .. Len(Redacted) |-> 0]
      s1 == Matches("phone", text)
      t1 == Splice(text, s1, Redacted, 1)
      k1 == Splice([i \in 1 .. Len(text) |-> i], s1, blank, 1)
      s2 == Matches("ssn", t1)
      t2 == Splice(t1, s2, Redacted, 1)
      k2 == Splice(k1, s2, blank, 1)
      s3 == Matches("email", t2)
  IN  Range(Splice(k2, s3, blank, 1)) \ {0}

\* every character of every match of pat in text is gone from redactPII(text)
AllRedacted(pat, text) ==
  LET spans == Matches(pat, text)
  IN  \A n \in 1 .. Len(spans) :
        \A j \in spans[n][1] .. spans[n][2] - 1 : j \notin Kept(text)

\* C10 as stated: every phone-like, SSN-like and email-like sequence of the
\* input is replaced by [REDACTED], the output contains no match of any of the
\* three patterns, and a text with no match is returned unchanged.
C10_RedactionCorrect ==
  /\ \A pat \in Patterns : AllRedacted(pat, InputText)
  /\ \A pat \in Patterns : Matches(pat, output) = <<>>
  /\ (\A pat \in Patterns : Matches(pat, InputText) = <<>>) => output = InputText

\* what redactPII does achieve: every phone-like and SSN-like sequence of the
\* input is gone, the output matches none of the three patterns, and a text
\* with no match is returned unchanged
C10_PhoneAndSsnRedacted ==
  /\ AllRedacted("phone", InputText)
  /\ AllRedacted("ssn", InputText)
  /\ \A pat \in Patterns : Matches(pat, output) = <<>>
  /\ (\A pat \in Patterns : Matches(pat, InputText) = <<>>) => output = InputText

\* an email-like token with a phone-like sequence inside it: the phone pass
\* has cut it, and characters of the token are in the output
C10_EmailSurvives ==
  /\ output = redactPII(InputText)
  /\ Matches("phone", InputText) # <<>>
  /\ ~AllRedacted("email", InputText)

\* field k of the event queued as message i: the member of the JSON object
\* on the queue, the zero value when the object has no such member
QueuedField(i, k) ==
  IF k \in DOMAIN msgs[i].body.obj THEN msgs[i].body.obj[k].val ELSE ZeroEvent[k]

\* rec is the event queued as message i with the three derived attributes added
RecordOfEvent(rec, i) ==
  /\ DOMAIN rec = DOMAIN ZeroEvent \cup {"modified_data", "processed_at", "status"}
  /\ \A k \in DOMAIN ZeroEvent : rec[k] = QueuedField(i, k)
  /\ rec.modified_data = Redaction(QueuedField(i, "original_text"))
  /\ rec.status = "PROCESSED"

\* C11 - processing never alters the original fields: every record the worker
\* writes has the tenant_id, log_id, original_text and source of the queued
\* event it was built from, and besides them only modified_data (the
\* redaction of original_text), processed_at and status = PROCESSED; its
\* log_id is the log_id of the 202 answered to the request that queued it.
C11_OriginalFieldsKept ==
  /\ \A i \in Written :
       /\ msgs[i].body.kind = "object"
       /\ RecordOfEvent(hist[i].first, i)
       /\ RecordOfEvent(hist[i].last, i)
       /\ (ing.msg = i /\ ing.resp.StatusCode = 202) =>
            /\ ing.resp.Body.log_id = hist[i].last.log_id
            /\ ing.resp.Body.tenant_id = hist[i].last.tenant_id
  /\ \A it \in table : \E i \in Written : RecordOfEvent(it, i)

\* the record of an accepted JSON upload is stored: its original_text is the
\* text submitted, its modified_data differs from it, and its log_id is the
\* one the 202 carries
C11_Witness ==
  /\ ing.msg \in Written
  /\ ing.resp.StatusCode = 202
  /\ hist[ing.msg].last \in table
  /\ hist[ing.msg].last.original_text = SuppliedText(hist[ing.msg].req)
  /\ hist[ing.msg].last.modified_data # hist[ing.msg].last.original_text
  /\ hist[ing.msg].last.log_id = ing.resp.Body.log_id

\* the request supplies a log_id: a JSON upload whose member log_id is a string
SuppliesLogId(req) == JsonPath(req) /\ IsString(Members(req.body), "log_id")

\* C12 as stated: every event the ingest handler has queued carries a
\* non-empty log_id, the caller's when the JSON body supplies one as a string,
\* and otherwise an identifier no other event was given.
C12_LogIdNonEmpty ==
  \A i \in FromIngest :
    /\ Member(i, "log_id") # ""
    /\ IF SuppliesLogId(hist[i].req)
       THEN Member(i, "log_id") = Members(hist[i].req.body)["log_id"].val
       ELSE \A j \in FromIngest \ {i} : Member(j, "log_id") # Member(i, "log_id")

\* what the handler does achieve: the log_id is the caller's string, empty or
\* not, and otherwise a non-empty identifier no other event was given
C12_LogIdCallersOrFresh ==
  \A i \in FromIngest :
    IF SuppliesLogId(hist[i].req)
    THEN Member(i, "log_id") = Members(hist[i].req.body)["log_id"].val
    ELSE /\ Member(i, "log_id") # ""
         /\ \A j \in FromIngest \ {i} : Member(j, "log_id") # Member(i, "log_id")

\* a JSON upload with the log_id "" was answered 202 and its event is on the
\* queue with an empty log_id
C12_EmptyLogIdQueued ==
  /\ ing.pc = "done"
  /\ ing.resp.StatusCode = 202
  /\ ing.msg \in FromIngest
  /\ SuppliesLogId(ing.req)
  /\ Member(ing.msg, "log_id") = ""

\* C13 - the handler attempts every message of its batch once and returns
\* normally: while it runs, the next message of the batch can be attempted
\* whatever the outcomes so far, and after the last one it can return; each of
\* its steps is one attempt on the next message, or the return after all of
\* them, on which every message that did not fail is deleted from the queue
\* (the invocation itself has not failed); and every invocation ends.
C13_HandlerTerminates ==
  /\ [](\A w \in Workers : wk[w].pc = "running" =>
          /\ Len(wk[w].outcomes) <= Len(wk[w].batch)
          /\ \A j, k \in DOMAIN wk[w].batch : j # k => wk[w].batch[j] # wk[w].batch[k]
          /\ Len(wk[w].outcomes) < Len(wk[w].batch) => ENABLED WorkerProcess(w)
          /\ Len(wk[w].outcomes) = Len(wk[w].batch) => ENABLED WorkerReturn(w))
  /\ [][\A w \in Workers :
          (wk[w].pc = "running" /\ wk'[w] # wk[w] /\ aborts' = aborts) =>
            \/ /\ wk'[w].pc = "running"
               /\ wk'[w].batch = wk[w].batch
               /\ Len(wk'[w].outcomes) = Len(wk[w].outcomes) + 1
            \/ /\ wk'[w].pc = "idle"
               /\ Len(wk[w].outcomes) = Len(wk[w].batch)
               /\ \A k \in Turns(w) :
                    wk[w].outcomes[k].err = "" => msgs'[wk[w].batch[k]].state = "deleted"]_vars
  /\ \A w \in Workers : (wk[w].pc = "running") ~> (wk[w].pc = "idle")

\* a handler at its return, the first message of its batch failed and the
\* second one attempted after it and written
C13_Witness ==
  \E w \in Workers :
    /\ AtReturn(w)
    /\ Len(wk[w].batch) = 2
    /\ wk[w].outcomes[1].err # ""
    /\ wk[w].outcomes[2].err = ""
    /\ wk[w].outcomes[2].written = 1

\* json.Unmarshal cannot make a LogEvent of the body: it is no JSON, or JSON
\* that is neither an object nor null, or an object with a member of LogEvent
\* that is no string
Undeserializable(doc) ==
  IF doc.kind = "text" THEN doc.json # "null"
  ELSE \E k \in DOMAIN doc.obj \cap DOMAIN ZeroEvent : doc.obj[k].type # "string"

\* C14 - a message whose body cannot be deserialized is marked failed without
\* further processing: its attempt ends with the error, no sleep, no PutItem
\* call and nothing written, the message is listed as failed, and the step
\* that attempts it leaves the store as it was.
C14_UndeserializableFailsAtOnce ==
  /\ [](\A w \in Workers : \A k \in Turns(w) :
          Undeserializable(msgs[wk[w].batch[k]].body) =>
            /\ wk[w].outcomes[k] = [err |-> "unmarshal", slept |-> -1,
                                    puts |-> 0, written |-> 0]
            /\ Listed(w, k))
  /\ [](\A i \in MsgIds : Undeserializable(msgs[i].body) => hist[i].writes = 0)
  /\ [][\A w \in Workers :
          (/\ wk[w].pc = "running"
           /\ Len(wk'[w].outcomes) = Len(wk[w].outcomes) + 1
           /\ Undeserializable(msgs[wk[w].batch[Len(wk[w].outcomes) + 1]].body))
            => table' = table /\ hist' = hist]_vars

\* a handler has written the first message of its batch and then been
\* through an object whose original_text is a number: that one is listed, and
\* the store holds the record of the first alone
C14_Witness ==
  \E w \in Workers :
    /\ AtReturn(w)
    /\ Len(wk[w].batch) = 2
    /\ wk[w].outcomes[1].written = 1
    /\ msgs[wk[w].batch[2]].body.kind = "object"
    /\ Undeserializable(msgs[wk[w].batch[2]].body)
    /\ Listed(w, 2)
    /\ table = {hist[wk[w].batch[1]].last}

\* C15 - last write wins per key, no torn record: with several invocations
\* running at the same time, the store holds one record per key, every record
\* is the whole record of one message (its four fields, and the redaction of
\* its own original_text); the record of the message written last is the one
\* stored under its key; and a write changes no record under another key or
\* another tenant.
C15_LastWriteWins ==
  /\ [](\A it \in table :
          /\ Cardinality(UnderKey(it)) = 1
          /\ \E i \in Written : it = hist[i].last /\ RecordOfEvent(it, i))
  /\ [][\A i \in MsgIds :
          hist'[i].writes > hist[i].writes =>
            /\ hist'[i].last \in table'
            /\ \A it \in table : ~SameKey(it, hist'[i].last) => it \in table'
            /\ \A it \in table' : it = hist'[i].last \/ it \in table]_vars

\* two invocations run at the same time, each on a message of the same key;
\* both have written, and the one record under the key is the one written last
C15_Witness ==
  \E v, w \in Invocations : \E i, j \in Written :
    /\ v # w /\ i # j
    /\ wk[v].pc = "running" /\ wk[w].pc = "running"
    /\ i \in Range(wk[v].batch) /\ j \in Range(wk[w].batch)
    /\ SameKey(hist[i].last, hist[j].last)
    /\ hist[i].last.original_text # hist[j].last.original_text
    /\ UnderKey(hist[i].last) = {hist[j].last}

\* a header value in lower case
LowerCase(v) ==
  [i \in DOMAIN v |-> IF v[i] = "APPLICATION/JSON" THEN "application/json" ELSE v[i]]

Unsupported == Response(400, ErrorBody("Unsupported Content-Type"))

\* the handler has answered ing.req as a request whose content type is v is
\* to be dispatched: to the JSON path, to the text path, or rejected
DispatchedBy(v) ==
  /\ ing.resp = Unsupported <=>
       ~(Contains(v, "application/json") \/ Contains(v, "text/plain"))
  /\ ing.msg # 0 =>
       Member(ing.msg, "source") =
         IF Contains(v, "application/json") THEN "json_upload" ELSE "text_upload"

\* C16 as stated: the Content-Type header is found whatever the case of its
\* name, and its value is matched without regard to letter case: a value with
\* application/json in any case goes the JSON path, one with text/plain the
\* text path, and only a value with neither is rejected as unsupported.
C16_CaseInsensitiveDispatch ==
  ing.pc # "idle" => DispatchedBy(LowerCase(ContentTypeOf(ing.req)))

\* what the handler does: the header is found whatever the case of its name,
\* and its value is matched as it is written, with any parameters after it
C16_DispatchAsWritten ==
  ing.pc # "idle" => DispatchedBy(ContentTypeOf(ing.req))

\* a JSON upload that is valid apart from the upper case of its content type
\* was rejected as unsupported
C16_UpperCaseRejected ==
  /\ ing.pc = "done"
  /\ ContentTypeOf(ing.req) = CtJsonUpper
  /\ IsString(Members(ing.req.body), "tenant_id")
  /\ Members(ing.req.body)["tenant_id"].val = "acme_corp"
  /\ IsString(Members(ing.req.body), "text")
  /\ Members(ing.req.body)["text"].val = TextPhone
  /\ ing.resp = Unsupported

InvalidJson == Response(400, ErrorBody("Invalid JSON"))

\* the body is valid JSON: an object, or a text that is a JSON value
ValidJson(doc) == doc.kind = "object" \/ doc.json # "invalid"

\* the body is a JSON object or the literal null
ObjectOrNull(doc) == doc.kind = "object" \/ doc.json = "null"

\* The handler has answered the JSON upload ing.req by the missing-field
\* checks alone, a member that is absent or no string counting as absent:
\* 'Missing tenant_id', else 'Missing text content', else the event is sent,
\* with a generated log_id unless the body gives one as a string.
JudgedByFields ==
  IF SuppliedTenant(ing.req) = ""
  THEN ing.resp = Response(400, ErrorBody("Missing tenant_id"))
  ELSE IF SuppliedText(ing.req) = <<>>
  THEN ing.resp = Response(400, ErrorBody("Missing text content"))
  ELSE /\ ing.resp.StatusCode \in {202, 500}
       /\ Len(ing.sends) = 1
       /\ ~SuppliesLogId(ing.req) => ing.sends[1].obj["log_id"].val = NewUuid(nreq)

\* C17 as stated: on the JSON path 'Invalid JSON' is the answer exactly when
\* the body is not valid JSON, and every body that is valid JSON is judged by
\* the missing-field checks alone.
C17_InvalidJsonIffNotJson ==
  (ing.pc # "idle" /\ JsonPath(ing.req)) =>
    /\ ing.resp = InvalidJson <=> ~ValidJson(ing.req.body)
    /\ ValidJson(ing.req.body) => JudgedByFields

\* what the handler does: 'Invalid JSON' is the answer exactly when the body
\* is neither a JSON object nor null, and an object or null is judged by the
\* missing-field checks alone
C17_InvalidJsonIffNoObject ==
  (ing.pc # "idle" /\ JsonPath(ing.req)) =>
    /\ ing.resp = InvalidJson <=> ~ObjectOrNull(ing.req.body)
    /\ ObjectOrNull(ing.req.body) => JudgedByFields

\* a JSON upload whose body is the valid JSON text 5 was answered 'Invalid JSON'
C17_NumberBodyRejected ==
  /\ ing.pc = "done"
  /\ JsonPath(ing.req)
  /\ ing.req.body = RawDoc(TextFive)
  /\ ValidJson(ing.req.body)
  /\ ing.resp = InvalidJson

RECURSIVE SumSeq(_)
SumSeq(q) == IF q = <<>> THEN 0 ELSE Head(q) + SumSeq(Tail(q))

\* C18 - the simulated delay of a message is min(50 ms x length, 5 s): 50 ms
\* per character up to 100 characters, 5 s beyond, never negative; and the
\* delays of a batch of at most 5 messages add up to at most 25 s.
C18_SleepCapped ==
  /\ Len(output) = Len(input)
  /\ Len(input) <= 5
  /\ \A k \in DOMAIN output :
       /\ output[k] = Min(50 * Len(input[k]), 5000)
       /\ output[k] >= 0 /\ output[k] <= 5000
       /\ Len(input[k]) <= 100 => output[k] = 50 * Len(input[k])
  /\ SumSeq(output) <= 25000

\* a batch of five: a text of 99 characters slept 4950 ms, one of the
\* greatest length slept 5 s, and the five slept more than 20 s together
C18_Witness ==
  /\ Len(output) = 5
  /\ Len(input[1]) = 99 /\ output[1] = 4950
  /\ Len(input[2]) = MaxTextLen /\ output[2] = 5000
  /\ SumSeq(output) > 20000

\* every record written, stored now or overwritten since
RecordsWritten == table \cup {hist[i].first : i \in Written} \cup {hist[i].last : i \in Written}

\* C19 as stated: every record the worker writes has a non-empty tenant_id,
\* a non-empty log_id and a non-empty original_text, whatever the message
\* body it was made from.
C19_RecordsNonEmpty ==
  \A it \in RecordsWritten :
    /\ it.tenant_id # ""
    /\ it.log_id # ""
    /\ it.original_text # <<>>

\* what does hold: no record is stored under an empty key, the store refusing
\* the put of an item whose tenant_id or log_id is empty
C19_KeysNonEmpty ==
  /\ \A it \in RecordsWritten : it.tenant_id # "" /\ it.log_id # ""
  /\ \A i \in MsgIds :
       (\/ msgs[i].body.kind = "text"
        \/ QueuedField(i, "tenant_id") = ""
        \/ QueuedField(i, "log_id") = "") => hist[i].writes = 0

\* the record of a message that is an object without original_text is stored,
\* its original_text and its modified_data empty
C19_EmptyTextStored ==
  \E i \in Written :
    /\ "original_text" \notin DOMAIN msgs[i].body.obj
    /\ msgs[i].state = "deleted"
    /\ hist[i].last \in table
    /\ hist[i].last.original_text = <<>>
    /\ hist[i].last.modified_data = <<>>

=============================================================================
